---- MODULE Spec2Model ----
(***************************************************************************)
(* Model of services/geminiService.ts, the offline advisory service of the *)
(* Jal Suraksha Kavach dashboard.  Every function of the file is a pure    *)
(* function of its arguments (plus one Math.random() draw and one          *)
(* console.info line), so the state of the model is one call: which        *)
(* function, with which arguments, whether it has returned, and what.      *)
(*                                                                         *)
(* Strings are TLA+ strings (sequences of characters): toLowerCase,        *)
(* includes and template-literal interpolation are computed character by   *)
(* character.  pH and turbidity readings are held in tenths (6.5 is 65).   *)
(* Math.random() is the rational rand / RandDenom with 0 <= rand <         *)
(* RandDenom.                                                              *)
(***************************************************************************)
EXTENDS Integers, Sequences, FiniteSets, TLC

VARIABLES pc, fn, args, result, random, console

vars == <<pc, fn, args, result, random, console>>

---------------------------------------------------------------------------
(* Bounds of the model *)

MaxWords == 2      \* fragments concatenated into a query / name / report type
MaxCtx == 1        \* length of the states and reports lists of an assistant context
MaxStates == 3     \* length of the list given to getTopStateSummary
MaxReports == 2    \* length of the list given to getRecentWaterSummary
MaxDiseases == 2   \* length of a state record's disease list
MaxAffected == 2   \* largest affected count
RandDenom == 40    \* Math.random() is one of 0/RandDenom .. (RandDenom-1)/RandDenom

---------------------------------------------------------------------------
(* Strings *)

SeqsUpTo(S, n) == UNION {[1..k -> S] : k \in 0..n}

RECURSIVE Concat(_)
Concat(ws) == IF ws = <<>> THEN "" ELSE Head(ws) \o Concat(Tail(ws))

\* all strings made of at most n fragments of W
Phrases(W, n) == {Concat(ws) : ws \in SeqsUpTo(W, n)}

CharAt(s, i) == SubSeq(s, i, i)

\* String.prototype.toLowerCase on one character (ASCII letters)
LowerChar(c) ==
    CASE c = "A" -> "a" [] c = "B" -> "b" [] c = "C" -> "c" [] c = "D" -> "d"
      [] c = "E" -> "e" [] c = "F" -> "f" [] c = "G" -> "g" [] c = "H" -> "h"
      [] c = "I" -> "i" [] c = "J" -> "j" [] c = "K" -> "k" [] c = "L" -> "l"
      [] c = "M" -> "m" [] c = "N" -> "n" [] c = "O" -> "o" [] c = "P" -> "p"
      [] c = "Q" -> "q" [] c = "R" -> "r" [] c = "S" -> "s" [] c = "T" -> "t"
      [] c = "U" -> "u" [] c = "V" -> "v" [] c = "W" -> "w" [] c = "X" -> "x"
      [] c = "Y" -> "y" [] c = "Z" -> "z"
      [] OTHER -> c

RECURSIVE toLowerCase(_)
toLowerCase(s) ==
    IF Len(s) = 0 THEN ""
    ELSE LowerChar(CharAt(s, 1)) \o toLowerCase(SubSeq(s, 2, Len(s)))

\* String.prototype.includes: k occurs in s as a contiguous substring
includes(s, k) ==
    \E i \in 0..(Len(s) - Len(k)) : SubSeq(s, i + 1, i + Len(k)) = k

Digit(d) == CharAt("0123456789", d + 1)

\* `${n}` for a non-negative integer n
RECURSIVE NumToString(_)
NumToString(n) ==
    IF n < 10 THEN Digit(n) ELSE NumToString(n \div 10) \o Digit(n % 10)

\* `${x}` for a reading held in tenths: 70 prints "7", 65 prints "6.5"
TenthsToString(t) ==
    NumToString(t \div 10) \o (IF t % 10 = 0 THEN "" ELSE "." \o Digit(t % 10))

---------------------------------------------------------------------------
(* getTopStateSummary *)

\* faulty variant: the comparator with its operands exchanged (ascending order)
compareStatesAscending(a, b) == a.totalAffected - b.totalAffected

\* comparator (a, b) => b.totalAffected - a.totalAffected
compareStates(a, b) == b.totalAffected - a.totalAffected

\* Array.prototype.sort is stable: x goes after every element it does not
\* precede under the comparator
RECURSIVE insertSorted(_, _)
insertSorted(x, sorted) ==
    IF sorted = <<>> THEN <<x>>
    ELSE IF compareStates(x, Head(sorted)) < 0
         THEN <<x>> \o sorted
         ELSE <<Head(sorted)>> \o insertSorted(x, Tail(sorted))

RECURSIVE sortStates(_)
sortStates(states) ==
    IF states = <<>> THEN <<>>
    ELSE insertSorted(states[Len(states)], sortStates(SubSeq(states, 1, Len(states) - 1)))

topState(states) == sortStates(states)[1]

NoStateData == "No state disease data is available yet."

\* the template literal of the summary
topStateSentence(name, totalAffected) ==
    name \o " currently has the highest reported disease burden with "
         \o NumToString(totalAffected) \o " affected cases."

getTopStateSummary(states) ==
    IF Len(states) = 0 THEN NoStateData
    ELSE LET top == topState(states)
         IN topStateSentence(top.name, top.totalAffected)

---------------------------------------------------------------------------
(* getRecentWaterSummary *)

SafePhMin == 65          \* 6.5
SafePhMax == 85          \* 8.5
TurbidityLimit == 50     \* 5 NTU

safePh(latest) == latest.ph >= SafePhMin /\ latest.ph <= SafePhMax

\* faulty variant: the turbidity limit taken as inclusive
safeTurbidityInclusive(latest) == latest.turbidity <= TurbidityLimit

safeTurbidity(latest) == latest.turbidity < TurbidityLimit

waterVerdict(latest) ==
    IF safePh(latest) /\ safeTurbidity(latest) THEN "within safe range" ELSE "needs attention"

NoWaterReports == "No recent water quality reports are available."

\* the template literal of the summary
waterSentence(siteName, siteType, ph, turbidity, verdict) ==
    "Latest site " \o siteName \o " (" \o siteType \o ") shows pH "
        \o TenthsToString(ph) \o " and turbidity "
        \o TenthsToString(turbidity) \o " NTU, which " \o verdict \o "."

latestReport(reports) == reports[Len(reports)]

getRecentWaterSummary(reports) ==
    IF Len(reports) = 0 THEN NoWaterReports
    ELSE LET latest == latestReport(reports)
         IN waterSentence(latest.siteName, latest.siteType, latest.ph, latest.turbidity,
                          waterVerdict(latest))

---------------------------------------------------------------------------
(* getOfflineAssistantReply *)

PhFact == "The safe pH range for drinking water is 6.5 to 8.5."

OfflineDisclaimer == "I am running in offline mode without external AI APIs. "

\* faulty variant: the state / disease / cases test made before the pH test
replyDiseaseFirst(userQuery, contextData) ==
    LET q == toLowerCase(userQuery)
    IN IF includes(q, "state") \/ includes(q, "disease") \/ includes(q, "cases")
       THEN getTopStateSummary(contextData.states) \o " "
              \o getRecentWaterSummary(contextData.reports)
       ELSE IF includes(q, "ph") \/ includes(q, "safe range")
       THEN PhFact
       ELSE IF includes(q, "water") \/ includes(q, "quality") \/ includes(q, "turbidity")
       THEN getRecentWaterSummary(contextData.reports)
       ELSE OfflineDisclaimer
              \o getTopStateSummary(contextData.states) \o " "
              \o getRecentWaterSummary(contextData.reports)

\* faulty variant: the second branch answers with the two summaries exchanged
replySummariesExchanged(userQuery, contextData) ==
    LET q == toLowerCase(userQuery)
    IN IF includes(q, "ph") \/ includes(q, "safe range")
       THEN PhFact
       ELSE IF includes(q, "state") \/ includes(q, "disease") \/ includes(q, "cases")
       THEN getRecentWaterSummary(contextData.reports) \o " "
              \o getTopStateSummary(contextData.states)
       ELSE IF includes(q, "water") \/ includes(q, "quality") \/ includes(q, "turbidity")
       THEN getRecentWaterSummary(contextData.reports)
       ELSE OfflineDisclaimer
              \o getTopStateSummary(contextData.states) \o " "
              \o getRecentWaterSummary(contextData.reports)

getOfflineAssistantReply(userQuery, contextData) ==
    LET q == toLowerCase(userQuery)
    IN IF includes(q, "ph") \/ includes(q, "safe range")
       THEN PhFact
       ELSE IF includes(q, "state") \/ includes(q, "disease") \/ includes(q, "cases")
       THEN getTopStateSummary(contextData.states) \o " "
              \o getRecentWaterSummary(contextData.reports)
       ELSE IF includes(q, "water") \/ includes(q, "quality") \/ includes(q, "turbidity")
       THEN getRecentWaterSummary(contextData.reports)
       ELSE OfflineDisclaimer
              \o getTopStateSummary(contextData.states) \o " "
              \o getRecentWaterSummary(contextData.reports)

\* faulty variant: the envelope carries audio fields that depend on the language
voiceWithAudio(userQuery, contextData, languageCode) ==
    [text |-> getOfflineAssistantReply(userQuery, contextData),
     audioBase64 |-> languageCode, audioMimeType |-> "audio/wav"]

askJalAssistantWithVoice(userQuery, contextData, languageCode) ==
    [text |-> getOfflineAssistantReply(userQuery, contextData)]

askJalAssistant(userQuery, contextData, languageCode) ==
    askJalAssistantWithVoice(userQuery, contextData, languageCode).text

---------------------------------------------------------------------------
(* generateHealthReport *)

FallbackDisease == "water-borne disease"

\* topDisease?.name || "water-borne disease": the fallback stands in for a
\* missing entry and for a falsy (empty) name
topDiseaseName(diseases) ==
    IF Len(diseases) = 0 THEN FallbackDisease
    ELSE IF diseases[1].name = "" THEN FallbackDisease
    ELSE diseases[1].name

\* faulty variant: the count of the last entry instead of the first
lastDiseaseAffected(diseases) ==
    IF Len(diseases) = 0 THEN 0 ELSE diseases[Len(diseases)].affected

\* topDisease?.affected || 0: 0 stands in for a missing entry and for a
\* falsy (zero) count
topDiseaseAffected(diseases) ==
    IF Len(diseases) = 0 THEN 0
    ELSE IF diseases[1].affected = 0 THEN 0
    ELSE diseases[1].affected

\* the template literal of the report
healthReportText(name, totalAffected, concern, cases) ==
    "Offline analysis for " \o name \o ": total affected " \o NumToString(totalAffected)
        \o ". Top concern is " \o concern \o " with " \o NumToString(cases)
        \o " reported cases.\n\nRECOMMENDATION: Prioritize chlorination checks and ORS stock in high-burden districts this week."

generateHealthReport(stateData) ==
    healthReportText(stateData.name, stateData.totalAffected,
                     topDiseaseName(stateData.diseases), topDiseaseAffected(stateData.diseases))

---------------------------------------------------------------------------
(* suggestPreventiveMeasures *)

DefaultMeasures ==
    <<"Drink boiled or filtered water", "Wash hands with soap before meals",
      "Avoid uncovered street food">>

CholeraMeasures ==
    <<"Use chlorinated drinking water", "Wash fruits and utensils with clean water",
      "Use ORS and seek care immediately for severe diarrhea">>

TyphoidMeasures ==
    <<"Drink safe water only", "Avoid raw cut fruits from unknown vendors",
      "Complete prescribed antibiotics from a doctor">>

\* faulty variant: typhoid tested before cholera
measuresTyphoidFirst(diseaseName) ==
    LET disease == toLowerCase(diseaseName)
    IN IF includes(disease, "typhoid") THEN TyphoidMeasures
       ELSE IF includes(disease, "cholera") THEN CholeraMeasures
       ELSE DefaultMeasures

suggestPreventiveMeasures(diseaseName) ==
    LET disease == toLowerCase(diseaseName)
    IN IF includes(disease, "cholera") THEN CholeraMeasures
       ELSE IF includes(disease, "typhoid") THEN TyphoidMeasures
       ELSE DefaultMeasures

---------------------------------------------------------------------------
(* getMockAdvancedReport, getAdvancedReport *)

ScoreSpan == 40
ScoreBase == 50
SafeAbove == 75

isWater(reportType) ==
    includes(toLowerCase(reportType), "water") \/ includes(toLowerCase(reportType), "groundwater")

isDisease(reportType) ==
    includes(toLowerCase(reportType), "disease") \/ includes(toLowerCase(reportType), "hospital")

\* faulty variant: a percentage, Math.floor(Math.random() * 100)
mockScorePercent(rand) == (rand * 100) \div RandDenom

\* Math.floor(Math.random() * 40) + 50 with Math.random() = rand / RandDenom
mockScore(rand) == ((rand * ScoreSpan) \div RandDenom) + ScoreBase

\* faulty variant: the safe threshold taken as inclusive
isSafeInclusive(score) == score >= SafeAbove

isSafe(score) == score > SafeAbove

mockVerdict(water, disease, safe) ==
    IF water THEN (IF safe THEN "Safe for Consumption" ELSE "Requires Filtration")
    ELSE IF disease THEN (IF safe THEN "Low Health Risk" ELSE "Elevated Viral Risk")
    ELSE (IF safe THEN "Stable Conditions" ELSE "Caution Advised")

\* isWater ? w : isDisease ? d : o
byBucket(water, disease, w, d, o) == IF water THEN w ELSE IF disease THEN d ELSE o

mockSummary(city, water, disease, safe) ==
    "This is a simulated report for " \o city
        \o " because the AI service is currently unreachable (likely Free Tier rate limit). Data suggests "
        \o byBucket(water, disease,
                    IF safe THEN "water parameters are within acceptable limits."
                            ELSE "turbidity levels are slightly high, boiling advised.",
                    "seasonal variations in local health data.",
                    "nominal environmental parameters.")

mockKeyMetrics(w, d) ==
    << [name |-> byBucket(w, d, "pH Level", "Daily OPD", "Larval Density"),
        value |-> byBucket(w, d, "7.4", "145", "12"),
        unit |-> byBucket(w, d, "", "patients", "per dip"), status |-> "Neutral"],
       [name |-> byBucket(w, d, "Turbidity", "Viral Fever", "Fogging Coverage"),
        value |-> byBucket(w, d, "12", "45", "85"),
        unit |-> byBucket(w, d, "NTU", "cases", "%"),
        status |-> IF w THEN "Bad" ELSE "Neutral"],
       [name |-> byBucket(w, d, "Dissolved Oxygen", "Bed Occupancy", "Stagnant Water"),
        value |-> byBucket(w, d, "6.2", "68", "Low"),
        unit |-> byBucket(w, d, "mg/L", "%", "risk"), status |-> "Good"],
       [name |-> byBucket(w, d, "E. Coli", "Critical Cases", "Vector Index"),
        value |-> byBucket(w, d, "4", "2", "0.4"),
        unit |-> byBucket(w, d, "CFU", "cases", ""), status |-> "Good"] >>

\* the report built from the two classifications and the score
mockReport(reportType, location, water, disease, score) ==
    LET safe == isSafe(score)
    IN [title |-> reportType \o " - Simulated Analysis",
        overall_status |-> IF safe THEN "Safe" ELSE "Caution",
        score |-> score,
        verdict |-> mockVerdict(water, disease, safe),
        summary |-> mockSummary(location.city, water, disease, safe),
        key_metrics |-> mockKeyMetrics(water, disease),
        alerts |-> <<"Simulated Alert: Data based on historical averages due to connection issue.">>,
        recommendations |-> <<"Check internet connection or API quota.",
                              "Verify field data manually before taking action.",
                              "Proceed with standard operating procedures.">>,
        coordinates |-> [lat |-> "26.1445", lng |-> "91.7362"],
        is_simulated |-> TRUE]

getMockAdvancedReport(reportType, location, rand) ==
    mockReport(reportType, location, isWater(reportType), isDisease(reportType), mockScore(rand))

\* the line getAdvancedReport writes with console.info
offlineNotice(reportType, location) ==
    "Offline mode active. Returning simulated " \o reportType \o " report for "
        \o location.city \o ", " \o location.state \o "."

getAdvancedReport(reportType, location, rand) == getMockAdvancedReport(reportType, location, rand)

---------------------------------------------------------------------------
(* Inputs *)

StateNames == {"Assam", "Bihar"}

DiseaseEntries == [name : {"", "Cholera", "Typhoid"}, affected : 0..MaxAffected]

\* the states of a context carry one fixed disease list: the summaries never read it
SomeDiseases == <<[name |-> "Cholera", affected |-> 1]>>

StateRecords == [name : StateNames, totalAffected : 0..MaxAffected, diseases : {SomeDiseases}]

WaterReports ==
    [siteName : {"Well-1", "Tap-2"}, siteType : {"well"},
     ph : {64, 65, 70, 85, 86}, turbidity : {20, 49, 50, 60}]

CtxStates == {[name |-> "Assam", totalAffected |-> 2, diseases |-> SomeDiseases]}

CtxReports == {[siteName |-> "Well-1", siteType |-> "well", ph |-> 70, turbidity |-> 20],
               [siteName |-> "Tap-2", siteType |-> "tap", ph |-> 86, turbidity |-> 50]}

Contexts == [states : SeqsUpTo(CtxStates, MaxCtx), reports : SeqsUpTo(CtxReports, MaxCtx)]

QueryWords == {"pH", "typhoid ", "Safe", " range", "State", "disease", "Cases",
               "Water", "quality", "turbidity", "hi "}

Queries == Phrases(QueryWords, MaxWords)

LanguageCodes == {"en", "hi"}

DiseaseLists == SeqsUpTo(DiseaseEntries, MaxDiseases)

HealthReportStates == [name : StateNames, totalAffected : 0..MaxAffected, diseases : DiseaseLists]

DiseaseWords == {"Cholera", "typhoid", "CHOL", "ERA", "Typ", "hoid", "flu", " outbreak"}

DiseaseQueries == Phrases(DiseaseWords, MaxWords)

TypeWords == {"Ground", "water", "WATER", "Disease", "hospital", "Vector", " Test"}

ReportTypes == Phrases(TypeWords, MaxWords)

Cities == {"Guwahati", "Patna"}

MockLocations == [city : Cities]

Locations == [state : {"Assam"}, city : Cities, date : {"2026-01-15"}]

RandomDraws == 0..(RandDenom - 1)

---------------------------------------------------------------------------
(* Calls: a behaviour is one call.  Init is the call about to be made (the *)
(* function and its arguments); the function's action runs it to its       *)
(* return.                                                                 *)

AssistantArgs ==
    [userQuery : Queries, contextData : Contexts, languageCode : LanguageCodes]

Init ==
    /\ pc = "call"
    /\ result = ""
    /\ random = 0
    /\ console = ""
    /\ \/ fn = "getTopStateSummary" /\ args \in [states : SeqsUpTo(StateRecords, MaxStates)]
       \/ fn = "getRecentWaterSummary" /\ args \in [reports : SeqsUpTo(WaterReports, MaxReports)]
       \/ fn = "askJalAssistant" /\ args \in AssistantArgs
       \/ fn = "askJalAssistantWithVoice" /\ args \in AssistantArgs
       \/ fn = "generateHealthReport" /\ args \in [stateData : HealthReportStates]
       \/ fn = "suggestPreventiveMeasures" /\ args \in [diseaseName : DiseaseQueries]
       \/ fn = "getMockAdvancedReport" /\ args \in [reportType : ReportTypes, location : MockLocations]
       \/ fn = "getAdvancedReport" /\ args \in [reportType : ReportTypes, location : Locations]

Return(value) ==
    /\ pc' = "return"
    /\ result' = value
    /\ UNCHANGED <<fn, args>>

GetTopStateSummary ==
    /\ pc = "call" /\ fn = "getTopStateSummary"
    /\ Return(getTopStateSummary(args.states))
    /\ UNCHANGED <<random, console>>

GetRecentWaterSummary ==
    /\ pc = "call" /\ fn = "getRecentWaterSummary"
    /\ Return(getRecentWaterSummary(args.reports))
    /\ UNCHANGED <<random, console>>

AskJalAssistant ==
    /\ pc = "call" /\ fn = "askJalAssistant"
    /\ Return(askJalAssistant(args.userQuery, args.contextData, args.languageCode))
    /\ UNCHANGED <<random, console>>

AskJalAssistantWithVoice ==
    /\ pc = "call" /\ fn = "askJalAssistantWithVoice"
    /\ Return(askJalAssistantWithVoice(args.userQuery, args.contextData, args.languageCode))
    /\ UNCHANGED <<random, console>>

GenerateHealthReport ==
    /\ pc = "call" /\ fn = "generateHealthReport"
    /\ Return(generateHealthReport(args.stateData))
    /\ UNCHANGED <<random, console>>

SuggestPreventiveMeasures ==
    /\ pc = "call" /\ fn = "suggestPreventiveMeasures"
    /\ Return(suggestPreventiveMeasures(args.diseaseName))
    /\ UNCHANGED <<random, console>>

GetMockAdvancedReport ==
    /\ pc = "call" /\ fn = "getMockAdvancedReport"
    /\ \E rand \in RandomDraws :
          /\ random' = rand
          /\ Return(getMockAdvancedReport(args.reportType, args.location, rand))
    /\ UNCHANGED console

GetAdvancedReport ==
    /\ pc = "call" /\ fn = "getAdvancedReport"
    /\ console' = offlineNotice(args.reportType, args.location)
    /\ \E rand \in RandomDraws :
          /\ random' = rand
          /\ Return(getAdvancedReport(args.reportType, args.location, rand))

Next ==
    \/ GetTopStateSummary
    \/ GetRecentWaterSummary
    \/ AskJalAssistant
    \/ AskJalAssistantWithVoice
    \/ GenerateHealthReport
    \/ SuggestPreventiveMeasures
    \/ GetMockAdvancedReport
    \/ GetAdvancedReport

Spec == Init /\ [][Next]_vars

---------------------------------------------------------------------------
(* Properties *)

Returned(f) == pc = "return" /\ fn = f

AssistantReturned == pc = "return" /\ fn \in {"askJalAssistant", "askJalAssistantWithVoice"}

\* the text of the assistant's answer, whichever wrapper was called
ReplyText == IF fn = "askJalAssistant" THEN result ELSE result.text

BothSummaries(contextData) ==
    getTopStateSummary(contextData.states) \o " " \o getRecentWaterSummary(contextData.reports)

MatchesPh(q) == includes(q, "ph") \/ includes(q, "safe range")
MatchesState(q) == includes(q, "state") \/ includes(q, "disease") \/ includes(q, "cases")
MatchesWater(q) == includes(q, "water") \/ includes(q, "quality") \/ includes(q, "turbidity")

(* C1: the reply is chosen by the first keyword set the lower-cased query  *)
(* matches, in the order pH / state-disease-cases / water-quality-         *)
(* turbidity / none: the pH fact, both summaries, the water summary alone, *)
(* the disclaimer followed by both summaries.                              *)
C1_FirstMatchWins ==
    AssistantReturned =>
        LET q == toLowerCase(args.userQuery)
            ctx == args.contextData
        IN /\ MatchesPh(q) => ReplyText = "The safe pH range for drinking water is 6.5 to 8.5."
           /\ (~MatchesPh(q) /\ MatchesState(q)) => ReplyText = BothSummaries(ctx)
           /\ (~MatchesPh(q) /\ ~MatchesState(q) /\ MatchesWater(q)) =>
                  ReplyText = getRecentWaterSummary(ctx.reports)
           /\ (~MatchesPh(q) /\ ~MatchesState(q) /\ ~MatchesWater(q)) =>
                  ReplyText = "I am running in offline mode without external AI APIs. "
                                  \o BothSummaries(ctx)

\* a query matching the pH set and the state set together, answered with the pH fact
C1_Witness ==
    /\ AssistantReturned
    /\ MatchesPh(toLowerCase(args.userQuery))
    /\ MatchesState(toLowerCase(args.userQuery))
    /\ args.contextData.states # <<>>
    /\ ReplyText = PhFact

(* C2, as stated: every query containing "disease", asked with non-empty   *)
(* states and reports, is answered with the top-state summary, a space and *)
(* the recent-water summary.                                               *)
C2_DiseaseQueryAsStated ==
    (/\ AssistantReturned
     /\ includes(args.userQuery, "disease")
     /\ args.contextData.states # <<>>
     /\ args.contextData.reports # <<>>)
        => ReplyText = BothSummaries(args.contextData)

(* C2, amended: every query containing "disease" whose lower-cased form    *)
(* contains neither "ph" nor "safe range", asked with non-empty states and *)
(* reports, is answered with the top-state summary, a space and the        *)
(* recent-water summary.                                                   *)
C2_DiseaseQuery ==
    (/\ AssistantReturned
     /\ includes(args.userQuery, "disease")
     /\ ~MatchesPh(toLowerCase(args.userQuery))
     /\ args.contextData.states # <<>>
     /\ args.contextData.reports # <<>>)
        => ReplyText = BothSummaries(args.contextData)

C2_Witness ==
    /\ AssistantReturned
    /\ includes(args.userQuery, "disease")
    /\ includes(args.userQuery, "Water")
    /\ ~MatchesPh(toLowerCase(args.userQuery))
    /\ args.contextData.states # <<>>
    /\ args.contextData.reports # <<>>
    /\ ReplyText = BothSummaries(args.contextData)

(* C3: for a non-empty list the summary names an element whose             *)
(* totalAffected is at least that of every element and prints that         *)
(* element's totalAffected; for the empty list it is the fixed no-data     *)
(* sentence.                                                               *)
C3_TopStateIsMaximum ==
    Returned("getTopStateSummary") =>
        LET states == args.states
        IN IF states = <<>>
           THEN result = "No state disease data is available yet."
           ELSE \E i \in DOMAIN states :
                   /\ result = topStateSentence(states[i].name, states[i].totalAffected)
                   /\ \A j \in DOMAIN states :
                          states[i].totalAffected >= states[j].totalAffected

\* the maximum is not the first element, and is another state than the first
C3_Witness ==
    /\ Returned("getTopStateSummary")
    /\ Len(args.states) = 3
    /\ args.states[1].totalAffected < args.states[3].totalAffected
    /\ args.states[2].totalAffected < args.states[3].totalAffected
    /\ args.states[1].name # args.states[3].name
    /\ result = topStateSentence(args.states[3].name, args.states[3].totalAffected)

\* the sentence the claim expects for one report
ExpectedWaterSentence(r) ==
    waterSentence(r.siteName, r.siteType, r.ph, r.turbidity,
                  IF r.ph >= 65 /\ r.ph <= 85 /\ r.turbidity < 50
                  THEN "within safe range" ELSE "needs attention")

(* C4: for a non-empty list the summary describes the last report and no   *)
(* other, with the verdict "within safe range" exactly when 6.5 <= pH <=   *)
(* 8.5 and turbidity < 5; for the empty list it is the fixed no-reports    *)
(* sentence.                                                               *)
C4_LatestReportVerdict ==
    Returned("getRecentWaterSummary") =>
        LET reports == args.reports
        IN IF reports = <<>>
           THEN result = "No recent water quality reports are available."
           ELSE /\ result = ExpectedWaterSentence(reports[Len(reports)])
                /\ \A i \in DOMAIN reports :
                       reports[i] # reports[Len(reports)]
                           => result # ExpectedWaterSentence(reports[i])

\* the last report sits on the safe pH boundary, the one before it on the turbidity limit
C4_Witness ==
    /\ Returned("getRecentWaterSummary")
    /\ Len(args.reports) = 2
    /\ args.reports[1].turbidity = 50 /\ args.reports[1].ph = 70
    /\ args.reports[2].ph = 85 /\ args.reports[2].turbidity = 49
    /\ result = waterSentence(args.reports[2].siteName, args.reports[2].siteType, 85, 49,
                              "within safe range")

MockReturned == pc = "return" /\ fn \in {"getMockAdvancedReport", "getAdvancedReport"}

(* C5: every mock report has overall_status "Safe" or "Caution", a score   *)
(* in 50..90, is_simulated true and exactly four key metrics.              *)
C5_MockReportShape ==
    MockReturned =>
        /\ result.overall_status \in {"Safe", "Caution"}
        /\ result.score \in 50..90
        /\ result.is_simulated = TRUE
        /\ Len(result.key_metrics) = 4

\* the largest draw, through getAdvancedReport
C5_Witness ==
    /\ Returned("getAdvancedReport")
    /\ random = RandDenom - 1
    /\ result.score = 89
    /\ Len(result.key_metrics) = 4

(* C6: the score 50 + floor(r*40) of a mock report lies in 50..90 for      *)
(* every draw r, and every integer of 50..90, 90 included, is the score of *)
(* some draw.                                                              *)
C6_EveryScoreProduced ==
    MockReturned =>
        /\ result.score \in 50..90
        /\ \A s \in 50..90 : \E rand \in RandomDraws : mockScore(rand) = s

(* C7: the measures are three strings: the cholera list when the           *)
(* lower-cased name contains "cholera", else the typhoid list when it      *)
(* contains "typhoid", else the default list.                              *)
C7_MeasuresByDisease ==
    Returned("suggestPreventiveMeasures") =>
        LET disease == toLowerCase(args.diseaseName)
        IN /\ Len(result) = 3
           /\ includes(disease, "cholera") =>
                  result = <<"Use chlorinated drinking water",
                             "Wash fruits and utensils with clean water",
                             "Use ORS and seek care immediately for severe diarrhea">>
           /\ (~includes(disease, "cholera") /\ includes(disease, "typhoid")) =>
                  result = <<"Drink safe water only",
                             "Avoid raw cut fruits from unknown vendors",
                             "Complete prescribed antibiotics from a doctor">>
           /\ (~includes(disease, "cholera") /\ ~includes(disease, "typhoid")) =>
                  result = <<"Drink boiled or filtered water",
                             "Wash hands with soap before meals",
                             "Avoid uncovered street food">>

\* a name containing both keywords, the typhoid one first, gets the cholera list
C7_Witness ==
    /\ Returned("suggestPreventiveMeasures")
    /\ args.diseaseName = "typhoidCholera"
    /\ result = CholeraMeasures

(* C8: askJalAssistantWithVoice returns an envelope with the text of       *)
(* getOfflineAssistantReply and no audio field, askJalAssistant returns    *)
(* that text, and the language code does not change either result.         *)
C8_TextOnlyAnyLanguage ==
    /\ Returned("askJalAssistantWithVoice") =>
          /\ "audioBase64" \notin DOMAIN result
          /\ "audioMimeType" \notin DOMAIN result
          /\ result.text = getOfflineAssistantReply(args.userQuery, args.contextData)
          /\ \A l \in LanguageCodes :
                 askJalAssistantWithVoice(args.userQuery, args.contextData, l) = result
    /\ Returned("askJalAssistant") =>
          /\ result = getOfflineAssistantReply(args.userQuery, args.contextData)
          /\ \A l \in LanguageCodes :
                 askJalAssistant(args.userQuery, args.contextData, l) = result

C8_Witness ==
    /\ Returned("askJalAssistantWithVoice")
    /\ args.languageCode = "hi"
    /\ args.contextData.reports # <<>>
    /\ DOMAIN result = {"text"}
    /\ result.text = getRecentWaterSummary(args.contextData.reports)

(* C9, as stated: the report names the first disease entry with its own    *)
(* name and count, and uses "water-borne disease" with count 0 when, and   *)
(* only when, the disease list is empty.                                   *)
C9_FirstDiseaseAsStated ==
    Returned("generateHealthReport") =>
        LET s == args.stateData
            d == s.diseases
        IN result = healthReportText(s.name, s.totalAffected,
                                     IF d = <<>> THEN "water-borne disease" ELSE d[1].name,
                                     IF d = <<>> THEN 0 ELSE d[1].affected)

(* C9, amended: the report names the first disease entry with its           *)
(* affected count and with its own name when that name is not empty; the   *)
(* name "water-borne disease" is used when, and only when, the list is     *)
(* empty or the first entry's name is the empty string, and the count is 0 *)
(* for the empty list.                                                     *)
C9_FirstDisease ==
    Returned("generateHealthReport") =>
        LET s == args.stateData
            d == s.diseases
        IN result = healthReportText(s.name, s.totalAffected,
                                     IF d = <<>> \/ d[1].name = ""
                                     THEN "water-borne disease" ELSE d[1].name,
                                     IF d = <<>> THEN 0 ELSE d[1].affected)

\* a later entry has the larger count; the first is still the top concern
C9_Witness ==
    /\ Returned("generateHealthReport")
    /\ Len(args.stateData.diseases) = 2
    /\ args.stateData.diseases[1] = [name |-> "Typhoid", affected |-> 1]
    /\ args.stateData.diseases[2] = [name |-> "Cholera", affected |-> 2]
    /\ result = healthReportText(args.stateData.name, args.stateData.totalAffected, "Typhoid", 1)

(* C10: overall_status is "Safe" exactly when score > 75; the verdict and  *)
(* the key-metric names are fixed by the bucket (water before disease      *)
(* before other) and by safe; "Analysis Inconclusive" is never returned.   *)
C10_StatusAndVerdict ==
    MockReturned =>
        LET t == toLowerCase(args.reportType)
            water == includes(t, "water")
            disease == includes(t, "disease") \/ includes(t, "hospital")
            safe == result.score > 75
        IN /\ (result.overall_status = "Safe") <=> safe
           /\ (result.overall_status = "Caution") <=> ~safe
           /\ result.verdict =
                 IF water THEN (IF safe THEN "Safe for Consumption" ELSE "Requires Filtration")
                 ELSE IF disease THEN (IF safe THEN "Low Health Risk" ELSE "Elevated Viral Risk")
                 ELSE (IF safe THEN "Stable Conditions" ELSE "Caution Advised")
           /\ [i \in 1..4 |-> result.key_metrics[i].name] =
                 IF water THEN <<"pH Level", "Turbidity", "Dissolved Oxygen", "E. Coli">>
                 ELSE IF disease
                      THEN <<"Daily OPD", "Viral Fever", "Bed Occupancy", "Critical Cases">>
                      ELSE <<"Larval Density", "Fogging Coverage", "Stagnant Water",
                             "Vector Index">>
           /\ result.verdict # "Analysis Inconclusive"

\* a type matching the water and the disease keywords, at the score 75
C10_Witness ==
    /\ Returned("getMockAdvancedReport")
    /\ args.reportType = "DiseaseWATER"
    /\ result.score = 75
    /\ result.overall_status = "Caution"
    /\ result.verdict = "Requires Filtration"

====
